---------------------------- MODULE Spec2Model ----------------------------
(***************************************************************************)
(* n-back sequence generation (dlecocq/nback).                             *)
(*                                                                         *)
(* Two implementations live in the repository:                             *)
(*   old.py    Nback.__init__, set_items / add_item / backtrack: the       *)
(*             position-by-position backtracking search;                   *)
(*   nback.py  Nback.__init__, sequence / place: the rewrite.              *)
(* A behaviour of the model is one generation request handed to one of the *)
(* two implementations: the constructor validates it and, when accepted,   *)
(* the generator runs step by step; a sequence completed by old.py can     *)
(* then be given its words by set_words.  SpecTwo runs two objects of      *)
(* old.py, built from one lure mapping object, with their steps in turn.   *)
(***************************************************************************)
EXTENDS Integers, Sequences, FiniteSets, TLC

VARIABLES
    impl,        \* "old" (old.py) or "nback" (nback.py)
    n,           \* the n-level argument / self.n / self._level
    targets,     \* number of targets requested
    fillers,     \* number of fillers requested
    lures,       \* the lure mapping: lure level -> count
    max_repeat,  \* the repeat limit, 0 = none
    tokens,      \* len(tokens) of the list handed to nback.py's sequence()
    pc,          \* where the program is: "new", "set_items", "add_item",
                 \* "constructed", "set_words", or an outcome
    raised,      \* message of the exception that ended the run, "" if none
    items,       \* self.items: the sequence under construction
    currentItem, \* self.currentItem
    types_ints,  \* self.types_ints: type identifier -> remaining count
    wordlist,    \* self.wordlist: the pool of filler tokens, a stack
    seqlength,   \* self.seqlength / self._length
    words,       \* the list object the caller hands to set_words(wordlist)
    other        \* a second Nback object of the same process, built from
                 \* the same lure mapping object; its fields while the
                 \* first one is the one running

vars == <<impl, n, targets, fillers, lures, max_repeat, tokens, pc, raised,
          items, currentItem, types_ints, wordlist, seqlength, words, other>>

request == <<n, targets, fillers, max_repeat, tokens>>
search == <<items, currentItem, types_ints, wordlist>>

---------------------------------------------------------------------------
(* Bounds of the requests explored.                                        *)
MaxLevel == 3
MaxCount == 1
MaxRepeat == 2

FILLER == 0

NLevels == 0..MaxLevel
LureLevels == (0 - 1)..(MaxLevel + 1)
Counts == (0 - 1)..MaxCount
FillerCounts == (0 - 1)..(MaxCount + 1)
Repeats == (0 - 1)..MaxRepeat

\* Lure mappings with no, one or two lure levels.
LureMaps ==
    UNION {[D -> Counts] : D \in {{d1, d2} : d1 \in LureLevels, d2 \in LureLevels}}
        \cup {[d \in {} |-> 0]}

\* The numbers of tokens handed to nback.py's sequence(): none, and the
\* range(100) of the test. old.py takes no tokens to generate.
TokenCounts == {0, 100}

---------------------------------------------------------------------------
(* Helpers for Python lists and dicts.                                     *)

Range(s) == {s[i] : i \in DOMAIN s}

RECURSIVE SumOver(_, _)
SumOver(f, S) ==
    IF S = {} THEN 0
    ELSE LET k == CHOOSE x \in S : TRUE IN f[k] + SumOver(f, S \ {k})

Min(S) == CHOOSE x \in S : \A y \in S : x <= y
Max(S) == CHOOSE x \in S : \A y \in S : x >= y

\* The keys of a dict of small non-negative ints, in iteration order.
RECURSIVE keys(_)
keys(S) == IF S = {} THEN <<>> ELSE <<Min(S)>> \o keys(S \ {Min(S)})

\* list.pop(): the list without its last element.
Front(s) == SubSeq(s, 1, Len(s) - 1)

\* seq[i] for a Python index i, negative from the end.
PyIndex(s, i) == IF i < 0 THEN s[Len(s) + i + 1] ELSE s[i + 1]

---------------------------------------------------------------------------
(* old.py: Nback.__init__.                                                 *)

\* min(lures.keys() + [n])
min_level == Min(DOMAIN lures \cup {n})

\* seqlength_of with the lures left out of the sum.
seqlength_without_lures == fillers + targets

\* self.seqlength = fillers + targets + sum(lures[key] for key in lures.keys())
seqlength_of == fillers + targets + SumOver(lures, DOMAIN lures)

\* dict(lures.items() + [(FILLER, fillers), (n, targets)]): a later pair
\* replaces an earlier one with the same key.
types_ints_of ==
    [k \in DOMAIN lures \cup {FILLER, n} |->
        IF k = n THEN targets ELSE IF k = FILLER THEN fillers ELSE lures[k]]

\* self.wordlist = range(fillers); self.wordlist.reverse()
wordlist_of == [i \in 1..fillers |-> fillers - i]

\* The last check with the counts left out: only the levels are compared.
levels_too_high == Max(DOMAIN lures) > seqlength_of

\* max([i + lures[i] for i in lures]) > self.seqlength
lures_too_high == Max({i + lures[i] : i \in DOMAIN lures}) > seqlength_of

\* The checks of the constructor in their order: the message of the
\* ValueError raised, or "ok".
old_check ==
    IF n < 1 THEN "n level must be >= 1"
    ELSE IF (targets < 0) \/ (fillers < 0) \/ (\E i \in DOMAIN lures : lures[i] < 0)
        THEN "Cannot have negative numbers of items"
    ELSE IF fillers < min_level
        THEN "Number of fillers must be >= the lesser of the n-level and the lowest lure level"
    ELSE IF \E i \in DOMAIN lures : i < 0
        THEN "Lure levels must be positive numbers"
    ELSE IF max_repeat < 0 THEN "max_repeat cannot be negative"
    ELSE IF (max_repeat = 1) /\ (n = 1)
        THEN "n-level and max_repeat cannot both be set to 1"
    ELSE IF (max_repeat = 1) /\ (1 \in DOMAIN lures) /\ (lures[1] > 0)
        THEN "max_repeat cannot be set to 1 when there are level-1 lures"
    ELSE IF DOMAIN lures = {}
        THEN "max() arg is an empty sequence"
    ELSE IF lures_too_high
        THEN "Lure levels/numbers are too high for sequence of length"
    ELSE "ok"

old_init ==
    /\ pc = "new"
    /\ impl = "old"
    /\ IF old_check = "ok"
       THEN /\ pc' = "set_items"
            /\ raised' = ""
            /\ items' = <<>>
            /\ currentItem' = <<>>
            /\ types_ints' = types_ints_of
            /\ seqlength' = seqlength_of
            /\ wordlist' = wordlist_of
       ELSE /\ pc' = "ValueError"
            /\ raised' = old_check
            /\ UNCHANGED <<search, seqlength>>
    /\ UNCHANGED <<impl, request, lures, words, other>>

---------------------------------------------------------------------------
(* nback.py: Nback.__init__, sequence, place.                              *)

\* self._pairs: one entry per target and per lure; only its length is used.
pairs_len == targets + SumOver(lures, DOMAIN lures)

\* self._length = len(self._pairs) + fillers
length_of == pairs_len + fillers

nback_check ==
    IF n < 1 THEN "n level must be >= 1"
    ELSE IF (targets < 0) \/ (fillers < 0)
        THEN "Cannot have negative numbers of items"
    ELSE IF DOMAIN lures = {}
        THEN "min() arg is an empty sequence"
    ELSE IF Min({lures[i] : i \in DOMAIN lures}) < 0
        THEN "Cannot have negative numbers of items"
    ELSE IF fillers < min_level
        THEN "Need more fillers than lowest lure / n level"
    ELSE IF Min(DOMAIN lures) <= 0
        THEN "Lure levels must be positive numbers"
    ELSE IF max_repeat < 0 THEN "max_repeat cannot be negative"
    ELSE IF (max_repeat = 1) /\ (n = 1)
        THEN "max_repeat and n-level cannot both be 1"
    ELSE IF (max_repeat = 1) /\ ((IF 1 \in DOMAIN lures THEN lures[1] ELSE 1) > 0)
        THEN "max_repeat cannot be 1 with 1-lures"
    ELSE IF Max({k + lures[k] : k \in DOMAIN lures}) > length_of
        THEN "Lure levels / counts too high for length"
    ELSE "ok"

nback_init ==
    /\ pc = "new"
    /\ impl = "nback"
    /\ IF nback_check = "ok"
       THEN /\ pc' = "constructed"
            /\ raised' = ""
            /\ seqlength' = length_of
       ELSE /\ pc' = "ValueError"
            /\ raised' = nback_check
            /\ UNCHANGED seqlength
    /\ UNCHANGED <<impl, request, lures, search, words, other>>

\* place(fillers, pairs) as sequence() calls it, available=None:
\* "available or set(range())" evaluates range() without arguments, which
\* raises TypeError before anything is placed.
place == "range expected at least 1 argument, got 0"

\* sequence(tokens): too few tokens is a ValueError, otherwise place() runs.
sequence ==
    /\ pc = "constructed"
    /\ impl = "nback"
    /\ IF tokens < fillers
       THEN /\ pc' = "ValueError"
            /\ raised' = "Need at least _unique tokens"
       ELSE /\ pc' = "TypeError"
            /\ raised' = place
    /\ UNCHANGED <<impl, request, lures, search, seqlength, words, other>>

---------------------------------------------------------------------------
(* old.py: the search, set_items / add_item / backtrack.                   *)

\* items_different(index1, index2): the stimuli at two Python indices differ.
items_different(index1, index2) ==
    ~(PyIndex(items, index1).stim = PyIndex(items, index2).stim)

\* repeat_limit_reached that never reports the limit.
repeat_limit_never == "False"

\* repeat_limit_reached(): "True" or "False", or "TypeError": with
\* max_repeat >= 2 and max_repeat items placed, the call
\* items_different(range(-max_repeat, 0)) passes one argument to a method
\* of two and raises.
repeat_limit_reached ==
    IF max_repeat = 0 THEN "False"
    ELSE IF Len(items) < max_repeat THEN "False"
    ELSE IF max_repeat = 1 THEN "True"
    ELSE "TypeError"

\* get_types(), the target branch: targets remain and n items are placed;
\* under a reached repeat limit the n-back stimulus must differ from the
\* last one.
target_available ==
    /\ types_ints[n] > 0
    /\ Len(items) >= n
    /\ (repeat_limit_reached = "True") => items_different(0 - 1, 0 - n)

\* lure_available without the comparison with the n-back stimulus.
lure_available_no_nback(lure_level) ==
    /\ types_ints[lure_level] > 0
    /\ Len(items) >= lure_level
    /\ (repeat_limit_reached = "True") => items_different(0 - 1, 0 - lure_level)

\* get_types(), one turn of the loop over the lure levels.
lure_available(lure_level) ==
    /\ types_ints[lure_level] > 0
    /\ Len(items) >= lure_level
    /\ (Len(items) >= n) => items_different(0 - n, 0 - lure_level)
    /\ (repeat_limit_reached = "True") => items_different(0 - 1, 0 - lure_level)

\* get_types() raises when it calls repeat_limit_reached() and that raises:
\* the call is made for the target and for each lure level that has a count
\* left and enough items before it.
get_types_raises ==
    /\ repeat_limit_reached = "TypeError"
    /\ \E k \in DOMAIN lures \cup {n} : (types_ints[k] > 0) /\ (Len(items) >= k)

RECURSIVE available_lures(_)
available_lures(levels) ==
    IF levels = <<>> THEN <<>>
    ELSE (IF lure_available(Head(levels)) THEN <<Head(levels)>> ELSE <<>>)
            \o available_lures(Tail(levels))

\* get_types(): the list of the candidate types, fillers first, then the
\* target, then the lure levels.
get_types ==
    (IF types_ints[FILLER] > 0 THEN <<FILLER>> ELSE <<>>)
        \o (IF target_available THEN <<n>> ELSE <<>>)
        \o available_lures(keys(DOMAIN lures))

\* get_stim that copies the last stimulus whatever the type's distance.
get_stim_last(item_type) ==
    IF item_type = FILLER THEN wordlist[Len(wordlist)]
    ELSE PyIndex(items, 0 - 1).stim

\* get_stim(): a filler takes the token on top of the pool, any other type
\* the stimulus item_type positions back.
get_stim(item_type) ==
    IF item_type = FILLER THEN wordlist[Len(wordlist)]
    ELSE PyIndex(items, 0 - item_type).stim

\* get_stim that reads the top token and leaves it in the pool.
wordlist_not_popped(item_type) == wordlist

\* The pool after get_stim(): wordlist.pop() for a filler.
wordlist_after_get_stim(item_type) ==
    IF item_type = FILLER THEN Front(wordlist) ELSE wordlist

\* remove that empties the list.
remove_all(list, x) == <<>>

\* list.remove(x): the list without the first x.
remove(list, x) ==
    LET i == Min({j \in DOMAIN list : list[j] = x})
    IN SubSeq(list, 1, i - 1) \o SubSeq(list, i + 1, Len(list))

\* backtrack that leaves the count of the popped type as it is.
types_ints_not_restored(popped) == types_ints

\* backtrack(), line 122: the popped item's type gets its count back.
types_ints_after_backtrack(popped) ==
    [types_ints EXCEPT ![popped.type] = @ + 1]

\* backtrack that does not put the popped filler's token back.
wordlist_token_dropped(popped) == wordlist

\* backtrack that puts the stimulus of any popped item into the pool.
wordlist_any_stim_returned(popped) == Append(wordlist, popped.stim)

\* backtrack(), lines 123-124: a popped filler's token goes back on the pool.
wordlist_after_backtrack(popped) ==
    IF popped.type = FILLER THEN Append(wordlist, popped.stim) ELSE wordlist

\* add_item with types_ints being the lure mapping object itself: taking
\* one from the count of a lure writes into the mapping.
lures_written_through(type) ==
    IF type \in DOMAIN lures THEN [lures EXCEPT ![type] = @ - 1] ELSE lures

\* add_item(), line 102: the count is taken from self.types_ints, a dict
\* of its own built at line 75; the lure mapping object is not written.
lures_after_add_item(type) == lures

\* choose_random_itemtype(): random.choice over the available types, each
\* repeated as often as its remaining count.
expanded == {t \in Range(currentItem.types_available) : types_ints[t] > 0}

\* set_items(): the loop ends when seqlength items are placed.
set_items_return ==
    /\ pc = "set_items"
    /\ impl = "old"
    /\ ~(Len(items) < seqlength)
    /\ pc' = "done"
    /\ UNCHANGED <<impl, request, lures, raised, search, seqlength, words, other>>

\* add_item(), lines 93-94: a new current item with its candidate types.
add_item_begin ==
    /\ pc = "set_items"
    /\ impl = "old"
    /\ Len(items) < seqlength
    /\ IF get_types_raises
       THEN /\ pc' = "TypeError"
            /\ raised' = "items_different() takes exactly 3 arguments (2 given)"
            /\ currentItem' = <<>>
       ELSE /\ pc' = "add_item"
            /\ currentItem' = [types_available |-> get_types]
            /\ UNCHANGED raised
    /\ UNCHANGED <<impl, request, lures, items, types_ints, wordlist, seqlength,
                   words, other>>

\* add_item(), lines 95-100: one turn of the loop, backtrack() or, when no
\* item is left to pop, the IndexError that is caught and ends the program.
backtrack ==
    /\ pc = "add_item"
    /\ impl = "old"
    /\ currentItem.types_available = <<>>
    /\ IF items = <<>>
       THEN /\ pc' = "exit"
            /\ raised' = "Couldn't construct list! Try again  with different parameters."
            /\ UNCHANGED search
       ELSE LET popped == items[Len(items)] IN
            /\ items' = Front(items)
            /\ types_ints' = types_ints_after_backtrack(popped)
            /\ wordlist' = wordlist_after_backtrack(popped)
            /\ currentItem' = [popped EXCEPT
                   !.types_available = remove(popped.types_available, popped.type)]
            /\ UNCHANGED <<pc, raised>>
    /\ UNCHANGED <<impl, request, lures, seqlength, words, other>>

\* add_item(), lines 101-104: choose a type, take it off its count, set the
\* stimulus and append the item.
add_item_end ==
    /\ pc = "add_item"
    /\ impl = "old"
    /\ ~(currentItem.types_available = <<>>)
    /\ IF expanded = {}
       THEN /\ pc' = "IndexError"
            /\ raised' = "Cannot choose from an empty sequence"
            /\ UNCHANGED <<search, lures>>
       ELSE \E type \in expanded :
            /\ lures' = lures_after_add_item(type)
            /\ IF (type = FILLER) /\ (wordlist = <<>>)
               THEN /\ pc' = "IndexError"
                    /\ raised' = "pop from empty list"
                    /\ types_ints' = [types_ints EXCEPT ![type] = @ - 1]
                    /\ currentItem' = [types_available |-> currentItem.types_available,
                                       type |-> type]
                    /\ UNCHANGED <<items, wordlist>>
               ELSE LET item == [types_available |-> currentItem.types_available,
                                 type |-> type,
                                 stim |-> get_stim(type)] IN
                    /\ pc' = "set_items"
                    /\ types_ints' = [types_ints EXCEPT ![type] = @ - 1]
                    /\ wordlist' = wordlist_after_get_stim(type)
                    /\ currentItem' = item
                    /\ items' = Append(items, item)
                    /\ UNCHANGED raised
    /\ UNCHANGED <<impl, request, seqlength, words, other>>

---------------------------------------------------------------------------
(* The requests, and the specification.                                    *)

\* The request of test_nback.py: Nback(3, 5, 5, {1: 2, 2: 4}).
test_request ==
    /\ n = 3
    /\ targets = 5
    /\ fillers = 5
    /\ lures = (1 :> 2) @@ (2 :> 4)
    /\ max_repeat = 0

\* test_basic builds the request with nback.py and asks it for a sequence
\* over range(100).
test_basic ==
    /\ impl = "nback"
    /\ test_request
    /\ tokens = 100

---------------------------------------------------------------------------
(* old.py: set_words.                                                      *)

\* The words a caller's list is made of, and the lists handed to set_words:
\* every list of at most as many entries as there are words, so with
\* duplicates, too short, long enough.
Words == {"a", "b", "c"}
WordLists == UNION {[1..k -> Words] : k \in 0..Cardinality(Words)}

\* random.shuffle(wordlist): the same entries in any order.
shuffle(list) ==
    {s \in [1..Len(list) -> Range(list)] :
        \A w \in Range(list) :
            Cardinality({i \in DOMAIN s : s[i] = w})
                = Cardinality({i \in DOMAIN list : list[i] = w})}

\* wordlist.reverse()
RECURSIVE reverse(_)
reverse(list) ==
    IF list = <<>> THEN <<>> ELSE Append(reverse(Tail(list)), Head(list))

RECURSIVE select_every_from(_, _), select_from(_, _)

\* The loop without the test for duplicates: every popped word is selected.
select_every_from(list, selected) ==
    IF ~(Len(selected) < fillers)
    THEN [selected |-> selected, left |-> list, short |-> FALSE]
    ELSE IF list = <<>>
    THEN [selected |-> selected, left |-> list, short |-> TRUE]
    ELSE select_every_from(Front(list), Append(selected, list[Len(list)]))

\* set_words(), lines 198-206: while fewer than fillers words are selected,
\* pop the last entry of the list; a word already selected is dropped, any
\* other is selected; the pop of an empty list ends it short.
select_from(list, selected) ==
    IF ~(Len(selected) < fillers)
    THEN [selected |-> selected, left |-> list, short |-> FALSE]
    ELSE IF list = <<>>
    THEN [selected |-> selected, left |-> list, short |-> TRUE]
    ELSE LET stim == list[Len(list)] IN
         IF stim \in Range(selected)
         THEN select_from(Front(list), selected)
         ELSE select_from(Front(list), Append(selected, stim))

\* The selection that takes duplicates as well.
select_every(list) == select_every_from(list, <<>>)

\* selected = [] and the loop over the list.
select(list) == select_from(list, <<>>)

\* The assignment that gives every item the first selected word.
items_with_first_word(selected) ==
    [i \in DOMAIN items |-> [items[i] EXCEPT !.stim = selected[1]]]

\* set_words(), lines 207-208: item['stim'] = selected[item['stim']].
items_with_words(selected) ==
    [i \in DOMAIN items |-> [items[i] EXCEPT !.stim = PyIndex(selected, items[i].stim)]]

\* The caller of a completed sequence makes the list it hands to set_words.
wordlist_argument ==
    /\ pc = "done"
    /\ impl = "old"
    /\ words' \in WordLists
    /\ pc' = "set_words"
    /\ UNCHANGED <<impl, request, lures, raised, search, seqlength, other>>

\* set_words(wordlist, randomize): shuffle if asked, reverse, select, and
\* either raise WordlistError or give the items their words.  The list
\* object is left with the entries not popped.
set_words ==
    /\ pc = "set_words"
    /\ impl = "old"
    /\ \E randomize \in BOOLEAN :
       \E order \in (IF randomize THEN shuffle(words) ELSE {words}) :
          LET sel == select(reverse(order)) IN
          /\ words' = sel.left
          /\ IF sel.short
             THEN /\ pc' = "WordlistError"
                  /\ raised' = "Wordlist too short. Unique words: %s. Words needed: %s."
                  /\ UNCHANGED items
             ELSE /\ pc' = "words_set"
                  /\ items' = items_with_words(sel.selected)
                  /\ UNCHANGED raised
    /\ UNCHANGED <<impl, request, lures, currentItem, types_ints, wordlist,
                   seqlength, other>>

---------------------------------------------------------------------------
(* Two Nback objects of old.py in one process.                             *)

\* The fields of the object that is running.
Self ==
    [impl |-> impl, n |-> n, targets |-> targets, fillers |-> fillers,
     max_repeat |-> max_repeat, tokens |-> tokens, pc |-> pc,
     raised |-> raised, items |-> items, currentItem |-> currentItem,
     types_ints |-> types_ints, wordlist |-> wordlist,
     seqlength |-> seqlength, words |-> words]

\* There is no second object.
NoInstance ==
    [impl |-> "none", n |-> 0, targets |-> 0, fillers |-> 0,
     max_repeat |-> 0, tokens |-> 0, pc |-> "none",
     raised |-> "", items |-> <<>>, currentItem |-> <<>>,
     types_ints |-> <<>>, wordlist |-> <<>>,
     seqlength |-> 0, words |-> <<>>]

\* The caller turns from one object to the other between two steps: the
\* running object is set aside as it is and the other one runs on.  The
\* lure mapping object belongs to both.
switch ==
    /\ ~(other.pc = "none")
    /\ other' = Self
    /\ impl' = other.impl
    /\ n' = other.n
    /\ targets' = other.targets
    /\ fillers' = other.fillers
    /\ max_repeat' = other.max_repeat
    /\ tokens' = other.tokens
    /\ pc' = other.pc
    /\ raised' = other.raised
    /\ items' = other.items
    /\ currentItem' = other.currentItem
    /\ types_ints' = other.types_ints
    /\ wordlist' = other.wordlist
    /\ seqlength' = other.seqlength
    /\ words' = other.words
    /\ UNCHANGED lures

\* Nothing is constructed yet.
Fresh ==
    /\ pc = "new"
    /\ raised = ""
    /\ items = <<>>
    /\ currentItem = <<>>
    /\ types_ints = <<>>
    /\ wordlist = <<>>
    /\ seqlength = 0
    /\ words = <<>>

Init ==
    /\ \/ /\ impl \in {"old", "nback"}
          /\ tokens \in IF impl = "nback" THEN TokenCounts ELSE {0}
          /\ n \in NLevels
          /\ targets \in Counts
          /\ fillers \in FillerCounts
          /\ lures \in LureMaps
          /\ max_repeat \in Repeats
       \/ test_basic
    /\ Fresh
    /\ other = NoInstance

Next ==
    \/ old_init
    \/ nback_init
    \/ sequence
    \/ add_item_begin
    \/ backtrack
    \/ add_item_end
    \/ set_items_return
    \/ wordlist_argument
    \/ set_words

Spec == Init /\ [][Next]_vars

\* The request of the test handed to old.py instead.
InitTestOld ==
    /\ impl = "old"
    /\ test_request
    /\ tokens = 0
    /\ Fresh
    /\ other = NoInstance

SpecTestOld == InitTestOld /\ [][Next]_vars

\* The lure mappings two objects are built from: the default argument
\* {1: 0}, which every call without a mapping shares, and mappings a caller
\* passes to both.
SharedLures == {(1 :> 0), (1 :> 1), (3 :> 1)}

\* The n-levels and the counts of targets and fillers of the two requests.
TwoLevels == {1, 2}
TwoTargets == {0, 1}
TwoFillers == {1, 2}

\* Two requests, each still to be constructed, over one lure mapping.
InitTwo ==
    /\ impl = "old"
    /\ tokens = 0
    /\ lures \in SharedLures
    /\ n \in TwoLevels
    /\ targets \in TwoTargets
    /\ fillers \in TwoFillers
    /\ max_repeat = 0
    /\ Fresh
    /\ \E n2 \in TwoLevels, targets2 \in TwoTargets, fillers2 \in TwoFillers :
           other = [NoInstance EXCEPT !.impl = "old", !.pc = "new", !.n = n2,
                        !.targets = targets2, !.fillers = fillers2]

\* The steps of the two objects in any order.
NextTwo ==
    \/ old_init
    \/ add_item_begin
    \/ backtrack
    \/ add_item_end
    \/ set_items_return
    \/ switch

SpecTwo == InitTwo /\ [][NextTwo]_vars

---------------------------------------------------------------------------
(* Properties of the search of old.py.                                     *)

\* The search of old.py is under way or has ended.
InSearch == (impl = "old") /\ (pc \in {"set_items", "add_item", "done", "exit"})

\* The lure levels that name a lure type: in types_ints and types_strings
\* the keys FILLER and n belong to the fillers and the targets.
LureTypes == DOMAIN lures \ {FILLER, n}

\* The number of items requested: fillers, targets and all the lures.
TotalLength == fillers + targets + SumOver(lures, DOMAIN lures)

\* The request names its lures as the documentation asks: every lure level
\* is positive and none is the n-level.
WellFormed == \A d \in DOMAIN lures : (d >= 1) /\ ~(d = n)

\* backtrack() has just popped an item: the current item carries the type
\* of the item it was.
JustBacktracked == (pc = "add_item") /\ ("type" \in DOMAIN currentItem)

\* C1: when the search finishes with a sequence, the sequence has exactly
\* TotalLength items and every remaining count in types_ints is zero.
C1_CompleteAndExhausted ==
    ((impl = "old") /\ (pc = "done")) =>
        /\ Len(items) = TotalLength
        /\ \A k \in DOMAIN types_ints : types_ints[k] = 0

\* A finished sequence that holds a filler, a target and a lure.
C1_Witness ==
    /\ impl = "old"
    /\ WellFormed
    /\ pc = "done"
    /\ \E i \in DOMAIN items : items[i].type = FILLER
    /\ \E i \in DOMAIN items : items[i].type = n
    /\ \E i \in DOMAIN items : items[i].type \in LureTypes

\* C2: in every state of the search every target sits at a position with n
\* items before it and repeats the stimulus n positions back.
C2_TargetRepeatsNBack ==
    InSearch =>
        \A i \in DOMAIN items :
            (items[i].type = n) =>
                /\ i - 1 >= n
                /\ items[i].stim = items[i - n].stim

\* A target is in the sequence just after a backtrack.
C2_Witness ==
    /\ impl = "old"
    /\ WellFormed
    /\ JustBacktracked
    /\ \E i \in DOMAIN items : items[i].type = n

\* C3: in every state of the search every lure of distance d has d items
\* before it, repeats the stimulus d positions back and, when n items are
\* before it, differs from the stimulus n positions back.
C3_LureRepeatsDBackNotNBack ==
    InSearch =>
        \A i \in DOMAIN items :
            (items[i].type \in LureTypes) =>
                LET d == items[i].type IN
                /\ i - 1 >= d
                /\ items[i].stim = items[i - d].stim
                /\ (i - 1 - n >= 0) => ~(items[i].stim = items[i - n].stim)

\* A lure with an n-back position is in the sequence just after a backtrack.
C3_Witness ==
    /\ impl = "old"
    /\ WellFormed
    /\ JustBacktracked
    /\ \E i \in DOMAIN items : (items[i].type \in LureTypes) /\ (i - 1 - n >= 0)

\* C4: in every state of the search a filler's stimulus differs from the
\* stimulus of every earlier position, so the fillers are pairwise distinct.
C4_FillersFresh ==
    InSearch =>
        \A i \in DOMAIN items :
            (items[i].type = FILLER) =>
                \A j \in 1..(i - 1) : ~(items[j].stim = items[i].stim)

\* A filler was popped at position p (FILLER is gone from the types left
\* there) and its token went back to the pool; a later position drew it.
C4_Witness ==
    /\ impl = "old"
    /\ WellFormed
    /\ pc = "set_items"
    /\ \E p \in DOMAIN items : \E q \in DOMAIN items :
        /\ p < q
        /\ ~(FILLER \in Range(items[p].types_available))
        /\ items[q].type = FILLER
        /\ \A k \in (p + 1)..(q - 1) : ~(items[k].type = FILLER)
        /\ \E j \in 1..(p - 1) : items[j].type = FILLER

\* C5: with max_repeat > 0 a sequence the search produced has no
\* max_repeat + 1 consecutive positions with one stimulus.
C5_NoLongRun ==
    ((impl = "old") /\ (pc = "done") /\ (max_repeat > 0)) =>
        \A i \in 1..(Len(items) - max_repeat) :
            \E j \in i..(i + max_repeat) : ~(items[j].stim = items[i].stim)

\* A produced sequence under a repeat limit that holds a target placed when
\* the limit was reached (max_repeat items were before it).
C5_Witness ==
    /\ impl = "old"
    /\ WellFormed
    /\ pc = "done"
    /\ max_repeat > 0
    /\ \E i \in DOMAIN items : (items[i].type = n) /\ (i - 1 >= max_repeat)

---------------------------------------------------------------------------
(* C7: what a valid complete sequence is, stated from the constraints on   *)
(* the positions and not from the search.                                  *)

\* The counts requested, by type identifier.
Requested ==
    [k \in DOMAIN lures \cup {FILLER, n} |->
        IF k = n THEN targets ELSE IF k = FILLER THEN fillers ELSE lures[k]]

\* The stimulus a type takes after the stimuli st: a filler a stimulus not
\* used before (the number of the fillers before it), any other type the
\* stimulus k positions back.
StimOf(st, types, k) ==
    IF k = FILLER THEN Cardinality({i \in DOMAIN types : types[i] = FILLER})
    ELSE st[Len(st) + 1 - k]

\* Appending the stimulus s to st would make max_repeat + 1 equal stimuli
\* in a row.
RunTooLong(st, s) ==
    /\ max_repeat > 0
    /\ Len(st) >= max_repeat
    /\ \A j \in (Len(st) - max_repeat + 1)..Len(st) : st[j] = s

\* The type k may follow the types placed: its back reference exists, a
\* lure differs from the n-back stimulus, and no run grows too long.
Admissible(st, types, k) ==
    IF k = FILLER THEN TRUE
    ELSE /\ Len(st) >= k
         /\ (~(k = n) /\ (Len(st) >= n)) => ~(st[Len(st) + 1 - k] = st[Len(st) + 1 - n])
         /\ ~RunTooLong(st, st[Len(st) + 1 - k])

\* Some ordering of the remaining types completes the sequence to
\* TotalLength valid positions.
RECURSIVE Completable(_, _, _)
Completable(st, types, rem) ==
    IF Len(st) = TotalLength THEN \A k \in DOMAIN rem : rem[k] = 0
    ELSE \E k \in DOMAIN rem :
            /\ rem[k] > 0
            /\ Admissible(st, types, k)
            /\ Completable(Append(st, StimOf(st, types, k)), Append(types, k),
                           [rem EXCEPT ![k] = @ - 1])

ValidSequenceExists == Completable(<<>>, <<>>, Requested)

\* C7: the search reports that no sequence can be built only when no
\* ordering of the requested types satisfies the constraints on the
\* positions.
C7_UnsatisfiableOnlyIfNone ==
    ((impl = "old") /\ (pc = "exit")) => ~ValidSequenceExists

\* The report for a well-formed request with targets and lures to place,
\* after the search went at least two items deep.
C7_Witness ==
    /\ impl = "old"
    /\ WellFormed
    /\ pc = "exit"
    /\ targets > 0
    /\ \E d \in DOMAIN lures : lures[d] > 0
    /\ fillers >= 2

\* A sequence completed after a dead end: the search backtracked and a
\* valid sequence exists.
C7_BacktrackedAndCompletable ==
    /\ impl = "old"
    /\ WellFormed
    /\ JustBacktracked
    /\ ValidSequenceExists

---------------------------------------------------------------------------
(* Statements the code does not meet.                                      *)

\* The run has ended.
Ended == ~(pc \in {"new", "constructed", "set_items", "add_item", "set_words"})

\* C6: the request of test_basic, handed enough tokens, is accepted and
\* every run on it ends with a complete sequence of 16 items.
C6_TestRequestCompletes ==
    (Ended /\ test_request /\ (tokens >= fillers)) =>
        /\ pc = "done"
        /\ Len(items) = 16

\* What old.py does with the same request (under SpecTestOld): a run that
\* has ended has ended with 16 items, 5 targets, 2 1-lures, 4 2-lures and 5
\* fillers.
OldSearchCompletesTestRequest ==
    ((impl = "old") /\ test_request /\ Ended) =>
        /\ pc = "done"
        /\ Len(items) = 16
        /\ Cardinality({i \in DOMAIN items : items[i].type = 3}) = 5
        /\ Cardinality({i \in DOMAIN items : items[i].type = 1}) = 2
        /\ Cardinality({i \in DOMAIN items : items[i].type = 2}) = 4
        /\ Cardinality({i \in DOMAIN items : items[i].type = FILLER}) = 5

\* C8: a run of the search on an accepted request ends with a complete
\* sequence or with the report that none can be built, never otherwise.
C8_OnlyTwoOutcomes ==
    ((impl = "old") /\ Ended /\ ~(pc = "ValueError")) => (pc \in {"done", "exit"})

\* The rules of a valid request other than the two on max_repeat = 1.
OtherRulesHold ==
    /\ n >= 1
    /\ targets >= 0
    /\ fillers >= 0
    /\ max_repeat >= 0
    /\ \A d \in DOMAIN lures : (lures[d] >= 0) /\ (d > 0) /\ ~(d = n)
    /\ fillers >= Min(DOMAIN lures \cup {n})
    /\ \A d \in DOMAIN lures : d + lures[d] <= TotalLength

\* C9: with max_repeat = 1 each constructor rejects n = 1 and a positive
\* count of 1-lures, and accepts n >= 2 without 1-lures when the other
\* rules hold, whether level 1 is mapped to 0 or absent.
C9_MaxRepeatOneRule ==
    (~(pc = "new") /\ (max_repeat = 1)) =>
        LET one_lures == (1 \in DOMAIN lures) /\ (lures[1] > 0) IN
        /\ ((n = 1) \/ one_lures) => (pc = "ValueError")
        /\ ((n >= 2) /\ ~one_lures /\ OtherRulesHold) => ~(pc = "ValueError")

\* C10: each constructor rejects a request with a lure level <= 0.
C10_LureLevelsPositive ==
    (~(pc = "new") /\ (\E d \in DOMAIN lures : d <= 0)) => (pc = "ValueError")

---------------------------------------------------------------------------
(* What the constructors accept and reject.                                *)

\* The constructor has run and has raised.
Rejected ==
    /\ pc = "ValueError"
    /\ ~(raised = "Need at least _unique tokens")

\* The constructor has run and has returned the object.
Accepted == ~(pc = "new") /\ ~Rejected

\* C11: each constructor rejects a request whose lure mapping has the
\* n-level among its lure levels.
C11_LureAtNLevelRejected ==
    (~(pc = "new") /\ (n \in DOMAIN lures)) => Rejected

\* C12: a request without lures, with n >= 1, targets >= 0, fillers >= n and
\* max_repeat = 0, is accepted, and its length is fillers + targets.
C12_NoLuresAccepted ==
    (/\ ~(pc = "new")
     /\ DOMAIN lures = {}
     /\ n >= 1
     /\ targets >= 0
     /\ fillers >= n
     /\ max_repeat = 0) =>
        /\ Accepted
        /\ seqlength = fillers + targets

\* Some lure level plus its count is more than the length of the sequence.
SomeLureTooHigh == \E d \in DOMAIN lures : d + lures[d] > TotalLength

\* C13: a request with a lure level d and count c where d + c > TotalLength
\* is rejected by the constructor, and nothing of the search has happened:
\* no item is placed, no count kept and no token in or out of the pool.
C13_TooHighRejectedBeforeSearch ==
    (~(pc = "new") /\ SomeLureTooHigh) =>
        /\ Rejected
        /\ items = <<>>
        /\ currentItem = <<>>
        /\ types_ints = <<>>
        /\ wordlist = <<>>

\* A request that passes every check but the last, with a lure of count 0
\* whose level alone is beyond the length, rejected by old.py.
C13_Witness ==
    /\ impl = "old"
    /\ pc = "ValueError"
    /\ raised = "Lure levels/numbers are too high for sequence of length"
    /\ WellFormed
    /\ \E d \in DOMAIN lures : (lures[d] = 0) /\ (d > TotalLength)
    /\ \E d \in DOMAIN lures : (lures[d] > 0) /\ (d <= TotalLength)
    /\ items = <<>>

\* C14: when the search reports that no sequence can be built, the sequence
\* is empty, every count in types_ints is the requested one and the pool
\* holds all the tokens 0..fillers-1 again, in the order it started with.
C14_NothingLeftBehind ==
    ((impl = "old") /\ (pc = "exit")) =>
        /\ items = <<>>
        /\ types_ints = Requested
        /\ Len(wordlist) = fillers
        /\ Range(wordlist) = 0..(fillers - 1)
        /\ wordlist = wordlist_of

\* The search placed fillers, gave up and backtracked over all of them.
C14_Witness ==
    /\ impl = "old"
    /\ pc = "exit"
    /\ WellFormed
    /\ fillers >= 2
    /\ targets >= 1
    /\ \E d \in DOMAIN lures : lures[d] >= 1
    /\ items = <<>>
    /\ types_ints = Requested
    /\ wordlist = wordlist_of

---------------------------------------------------------------------------
(* The counts and the pool during the search.                              *)

\* The number of items of type k in the sequence.
Placed(k) == Cardinality({i \in DOMAIN items : items[i].type = k})

\* For every type the remaining count and the items placed add up to the
\* requested count.
CountsConserved ==
    InSearch =>
        \A k \in DOMAIN types_ints : types_ints[k] + Placed(k) = Requested[k]

\* A step that appends an item takes one from the count of its type and
\* from no other; a step that pops an item gives one back to the count of
\* its type and to no other; any other step of the search leaves the counts.
CountsStep ==
    InSearch =>
        /\ (Len(items') = Len(items) + 1) =>
              types_ints' = [types_ints EXCEPT ![items'[Len(items')].type] = @ - 1]
        /\ (Len(items') = Len(items) - 1) =>
              types_ints' = [types_ints EXCEPT ![items[Len(items)].type] = @ + 1]
        /\ (Len(items') = Len(items)) => (types_ints' = types_ints)

\* C17: in every state of the search, for each type the remaining count
\* plus the number of its items in the sequence is the requested count;
\* add_item decrements the chosen type's count by one and backtrack
\* restores the popped item's type count by one, and nothing else.
C17_CountsAccounted == [](CountsConserved) /\ [][CountsStep]_vars

\* The search has placed a filler, a target and a lure and has just popped
\* a further item.
C17_Witness ==
    /\ impl = "old"
    /\ JustBacktracked
    /\ WellFormed
    /\ Placed(FILLER) >= 1
    /\ Placed(n) >= 1
    /\ \E d \in LureTypes : Placed(d) >= 1
    /\ types_ints[currentItem.type] >= 1
    /\ CountsConserved

\* The stimuli of the fillers in the sequence.
FillerStims == {items[i].stim : i \in {j \in DOMAIN items : items[j].type = FILLER}}

\* C18: in every state of the search the tokens in the pool and the stimuli
\* of the fillers placed are disjoint and together are 0..fillers-1, the
\* pool is as long as the remaining filler count, every stimulus of the
\* sequence is in 0..fillers-1, and no filler draw finds the pool empty.
C18_PoolAndFillersPartition ==
    /\ ~(pc = "IndexError")
    /\ InSearch =>
        /\ Range(wordlist) \cap FillerStims = {}
        /\ Range(wordlist) \cup FillerStims = 0..(fillers - 1)
        /\ Len(wordlist) = types_ints[FILLER]
        /\ \A i \in DOMAIN items : items[i].stim \in 0..(fillers - 1)

\* A filler has just been popped and its token is back in the pool, while
\* another filler, a target and a lure are still in the sequence.
C18_Witness ==
    /\ impl = "old"
    /\ JustBacktracked
    /\ WellFormed
    /\ currentItem.type = FILLER
    /\ currentItem.stim \in Range(wordlist)
    /\ Placed(FILLER) >= 1
    /\ Placed(n) >= 1
    /\ \E d \in LureTypes : Placed(d) >= 1
    /\ Len(wordlist) = types_ints[FILLER]

\* C19: repeat_limit_reached returns true when max_repeat > 0, at least
\* max_repeat items are placed and the last max_repeat items carry the same
\* stimulus, and returns false otherwise.
C19_RepeatLimitTrueOrFalse ==
    ((impl = "old") /\ (pc \in {"set_items", "add_item"})) =>
        repeat_limit_reached =
            IF /\ max_repeat > 0
               /\ Len(items) >= max_repeat
               /\ \A i \in (Len(items) - max_repeat + 1)..Len(items) :
                      items[i].stim = items[Len(items)].stim
            THEN "True"
            ELSE "False"

---------------------------------------------------------------------------
(* set_words.                                                              *)

\* The list handed to set_words has at least fillers distinct words.
EnoughWords == Cardinality(Range(words)) >= fillers

\* A step of set_words on a list with enough distinct words keeps the
\* length and the types and gives two positions the same word exactly when
\* they had the same placeholder.
PatternKept ==
    ((pc = "set_words") /\ EnoughWords) =>
        /\ pc' = "words_set"
        /\ Len(items') = Len(items)
        /\ \A i \in DOMAIN items : items'[i].type = items[i].type
        /\ \A i, j \in DOMAIN items :
              (items'[i].stim = items'[j].stim) <=> (items[i].stim = items[j].stim)

\* On the words, a target repeats the word n back, a lure repeats the word
\* its level back and not the one n back, and a filler is a word not used
\* before.
ConstraintsOnWords ==
    (pc = "words_set") =>
        \A i \in DOMAIN items :
            /\ (items[i].type = n) => (items[i].stim = items[i - n].stim)
            /\ (items[i].type \in LureTypes) =>
                  /\ items[i].stim = items[i - items[i].type].stim
                  /\ (i > n) => ~(items[i].stim = items[i - n].stim)
            /\ (items[i].type = FILLER) =>
                  \A j \in 1..(i - 1) : ~(items[j].stim = items[i].stim)

\* C15: after set_words on a completed sequence with a list of at least
\* fillers distinct words, word[i] = word[j] exactly when the placeholders
\* at i and j were equal, so the constraints on targets, lures and fillers
\* hold on the words.
C15_WordsKeepPattern == [][PatternKept]_vars /\ [](WellFormed => ConstraintsOnWords)

\* Words are set on a sequence with equal and with different stimuli, from
\* a list longer than needed.
C15_Witness ==
    /\ pc = "words_set"
    /\ WellFormed
    /\ Len(words) >= 1
    /\ \E i, j \in DOMAIN items : (i < j) /\ (items[i].stim = items[j].stim)
    /\ \E i, j \in DOMAIN items : ~(items[i].stim = items[j].stim)
    /\ \A i \in DOMAIN items : items[i].stim \in Words

\* A step of set_words ends in WordlistError exactly when the list has
\* fewer distinct words than fillers, and then leaves the items as they
\* are, placeholders in 0..fillers-1; otherwise the words are set.
FailsWhenShort ==
    (pc = "set_words") =>
        /\ (pc' = "WordlistError") <=> ~EnoughWords
        /\ (pc' = "words_set") <=> EnoughWords
        /\ (pc' = "WordlistError") =>
              /\ items' = items
              /\ \A i \in DOMAIN items' : items'[i].stim \in 0..(fillers - 1)

\* C16: set_words fails with WordlistError exactly when the list has fewer
\* distinct words than fillers, duplicates not counting, and a failure
\* leaves the stimuli of all items unchanged.
C16_ShortListFails == [][FailsWhenShort]_vars

\* set_words has failed on a sequence with at least two fillers.
C16_Witness ==
    /\ pc = "WordlistError"
    /\ raised = "Wordlist too short. Unique words: %s. Words needed: %s."
    /\ WellFormed
    /\ fillers >= 2
    /\ Placed(FILLER) = fillers
    /\ \A i \in DOMAIN items : items[i].stim \in 0..(fillers - 1)
    /\ words = <<>>

---------------------------------------------------------------------------
(* Two objects over one lure mapping (under SpecTwo).                      *)

\* C20: when the steps of two searches are interleaved, a step of one
\* leaves every field of the other and the lure mapping they share as they
\* are, and turning from one to the other changes neither: each search goes
\* on from exactly the state its own last step left.
C20_NoInterference ==
    [][/\ lures' = lures
       /\ \/ other' = other
          \/ (other' = Self) /\ (Self' = other)]_vars

\* Both searches are under way over the default mapping, each with items
\* placed and items still to place.
C20_Witness ==
    /\ lures = (1 :> 0)
    /\ pc = "add_item"
    /\ other.pc = "set_items"
    /\ ~(n = other.n)
    /\ Len(items) >= 1
    /\ Len(items) < seqlength
    /\ Len(other.items) >= 2
    /\ Len(other.items) < other.seqlength

====
